---- MODULE Spec2Model ----
(***************************************************************************)
(* Model of validate-prompts.py: validation of XML documents against an   *)
(* XSD taken from a --xsd override, from a local file named by the        *)
(* document's xsi:noNamespaceSchemaLocation, or fetched over HTTP(S).     *)
(*                                                                         *)
(* The file system, the network and the lxml engine are the environment:  *)
(* the file system is a fixed table of paths, each HTTP fetch draws its   *)
(* response nondeterministically, and the engine is a function from a     *)
(* schema and a document to an ordered violation list.                    *)
(*                                                                         *)
(* Optional values (Python None) are sequences of length 0 or 1.          *)
(***************************************************************************)
EXTENDS Integers, Sequences, FiniteSets, TLC

VARIABLES pc, path, xsd_override, listing, xml_files, idx,
          out, calls, fetchLog, uncaught

vars == <<pc, path, xsd_override, listing, xml_files, idx,
          out, calls, fetchLog, uncaught>>

(* Largest number of entries in the directory listing. *)
MaxFiles == 2

None == <<>>
Some(v) == <<v>>

(***************************************************************************)
(* String helpers (str.startswith, str.endswith, os.path.join, dirname).  *)
(***************************************************************************)
StartsWith(s, pre) ==
    Len(s) >= Len(pre) /\ SubSeq(s, 1, Len(pre)) = pre

EndsWith(s, suf) ==
    Len(s) >= Len(suf) /\ SubSeq(s, Len(s) - Len(suf) + 1, Len(s)) = suf

RECURSIVE LastSlash(_, _)
LastSlash(s, i) ==
    IF i = 0 THEN 0
    ELSE IF SubSeq(s, i, i) = "/" THEN i
    ELSE LastSlash(s, i - 1)

RECURSIVE RStripSlash(_)
RStripSlash(s) ==
    IF Len(s) > 0 /\ EndsWith(s, "/") THEN RStripSlash(SubSeq(s, 1, Len(s) - 1))
    ELSE s

Dirname(p) ==
    LET head == SubSeq(p, 1, LastSlash(p, Len(p)))
    IN  IF RStripSlash(head) = "" THEN head ELSE RStripSlash(head)

Join(a, b) ==
    IF StartsWith(b, "/") THEN b
    ELSE IF a = "" \/ EndsWith(a, "/") THEN a \o b
    ELSE a \o "/" \o b

(* Python truthiness of an optional string: None and "" are falsy. *)
Truthy(opt) == opt # None /\ opt[1] # ""

(***************************************************************************)
(* The environment: file system contents.                                 *)
(***************************************************************************)
Doc(loc, children) == [kind |-> "xml", loc |-> loc, children |-> children]
Raw(kind) == [kind |-> kind, loc |-> None, children |-> <<>>]

URL1 == "http://h/s.xsd"
URL2 == "https://h/s.xsd"

(* Entries that may appear directly inside directory "d". *)
DirEntries ==
    {"ok.xml", "ko.xml", "title.xml", "skip.xml", "bad.xml", "url.xml",
     "url2.xml", "tls.xml", "gone.xml", "brk.xml", "nx.xml", "dir.xml",
     "notes.txt", "sub", "old.xml.bak"}

IsDir(p) == p \in {"d", "d/sub", "d/dir.xml"}

(* Content of each path; "absent" when nothing is there. *)
FileAt(p) ==
    CASE p = "d/ok.xml"     -> Doc(Some("s.xsd"), <<"name">>)
      [] p = "d/ko.xml"     -> Doc(Some("s.xsd"), <<"junk", "extra">>)
      [] p = "d/title.xml"  -> Doc(Some("s.xsd"), <<"title">>)
      [] p = "d/skip.xml"   -> Doc(None, <<"name">>)
      [] p = "d/bad.xml"    -> Raw("malformed")
      [] p = "d/url.xml"    -> Doc(Some(URL1), <<"name">>)
      [] p = "d/url2.xml"   -> Doc(Some(URL1), <<>>)
      [] p = "d/tls.xml"    -> Doc(Some(URL2), <<"title">>)
      [] p = "d/gone.xml"   -> Doc(Some("gone.xsd"), <<"name">>)
      [] p = "d/brk.xml"    -> Doc(Some("broken.xsd"), <<"name">>)
      [] p = "d/nx.xml"     -> Doc(Some("notxsd.xsd"), <<"name">>)
      [] p = "d/sub/inner.xml" -> Doc(Some("s.xsd"), <<"name">>)
      [] p = "d/notes.txt"  -> Raw("malformed")
      [] p = "d/old.xml.bak" -> Doc(Some("s.xsd"), <<"name">>)
      [] p = "d/s.xsd"      -> Raw("S1")
      [] p = "o.xsd"        -> Raw("S2")
      [] p = "d/broken.xsd" -> Raw("malformed")
      [] p = "d/notxsd.xsd" -> Raw("notxsd")
      [] IsDir(p)           -> Raw("directory")
      [] OTHER              -> Raw("absent")

Exists(p) == FileAt(p).kind # "absent"

(* Root element each compiled schema requires as the only child. *)
Schemas == {"S1", "S2"}
Required(schema) == IF schema = "S1" THEN "name" ELSE "title"

(* Responses one HTTP GET can meet. *)
Responses == {"timeout", "404", "malformed", "notxsd", "S1", "S2"}

(* Values of the --xsd argument. *)
Overrides == {None, Some(""), Some("o.xsd"), Some("missing.xsd")}

(* One print call: a status tag, the message text, the path or URL it     *)
(* names, and the entries that follow (the cause, or the violation list). *)
Line(tag, msg, subject, detail) ==
    [tag |-> tag, msg |-> msg, subject |-> subject, detail |-> detail]

Cause(e) == <<[line |-> 0, message |-> e, element |-> ""]>>

(***************************************************************************)
(* The lxml engine.                                                        *)
(***************************************************************************)
(* etree.parse / etree.XML of a document: the tree, or the exception. *)
ParseXml(p) ==
    LET f == FileAt(p)
    IN  IF f.kind \in {"absent", "directory"} THEN [exc |-> "OSError", tree |-> f]
        ELSE IF f.kind = "malformed" THEN [exc |-> "XMLSyntaxError", tree |-> f]
        ELSE [exc |-> "none", tree |-> f]

(* etree.parse + etree.XMLSchema of a local schema file. *)
CompileLocal(p) ==
    LET f == FileAt(p)
    IN  IF f.kind \in {"absent", "directory"} THEN [exc |-> "OSError", schema |-> None]
        ELSE IF f.kind = "malformed" THEN [exc |-> "XMLSyntaxError", schema |-> None]
        ELSE IF f.kind \in Schemas THEN [exc |-> "none", schema |-> Some(f.kind)]
        ELSE [exc |-> "XMLSchemaParseError", schema |-> None]

(* The engine's ordered violation list (error_log) for a document. *)
RECURSIVE Unexpected(_, _, _)
Unexpected(schema, children, i) ==
    IF i > Len(children) THEN <<>>
    ELSE (IF i = 1 /\ children[i] = Required(schema) THEN <<>>
          ELSE <<[line |-> i + 1, message |-> "unexpected", element |-> children[i]]>>)
         \o Unexpected(schema, children, i + 1)

ErrorLog(schema, tree) ==
    Unexpected(schema, tree.children, 1)
    \o (IF Len(tree.children) = 0 \/ tree.children[1] # Required(schema)
        THEN <<[line |-> Len(tree.children) + 2, message |-> "missing",
                element |-> Required(schema)]>>
        ELSE <<>>)

(* XMLSchema.validate: true exactly when the schema accepts the tree. *)
SchemaValidate(schema, tree) == ErrorLog(schema, tree) = <<>>

(***************************************************************************)
(* fetch_xsd                                                               *)
(***************************************************************************)
FetchResult(url, resp, ret, msgs, exc) ==
    [url |-> url, resp |-> resp, ret |-> ret, out |-> msgs, exc |-> exc, gets |-> 1]

(* fetch_xsd with a cache of the schemas already fetched. *)
fetch_xsd_cached(xsd_url, resp) ==
    LET hits == {k \in 1..Len(fetchLog) :
                    fetchLog[k].url = xsd_url /\ fetchLog[k].ret # None}
    IN  IF hits # {}
        THEN [url |-> xsd_url, resp |-> resp,
              ret |-> fetchLog[CHOOSE k \in hits : TRUE].ret,
              out |-> <<>>, exc |-> "none", gets |-> 0]
        ELSE IF resp \in Schemas
        THEN FetchResult(xsd_url, resp, Some(resp), <<>>, "none")
        ELSE IF resp = "notxsd"
        THEN FetchResult(xsd_url, resp, None, <<>>, "XMLSchemaParseError")
        ELSE FetchResult(xsd_url, resp, None,
                 <<Line("ERROR", "Failed to fetch XSD from", xsd_url, Cause(resp))>>, "none")

fetch_xsd(xsd_url, resp) ==
    IF resp \in {"timeout", "404"}
    THEN FetchResult(xsd_url, resp, None,
             <<Line("ERROR", "Failed to fetch XSD from", xsd_url, Cause(resp))>>, "none")
    ELSE IF resp = "malformed"
    THEN FetchResult(xsd_url, resp, None,
             <<Line("ERROR", "Invalid XSD format from", xsd_url, Cause(resp))>>, "none")
    ELSE IF resp \in Schemas
    THEN FetchResult(xsd_url, resp, Some(resp), <<>>, "none")
    ELSE FetchResult(xsd_url, resp, None, <<>>, "XMLSchemaParseError")

(***************************************************************************)
(* validate_with_schema                                                    *)
(***************************************************************************)
(* validate_with_schema printing only the first violation. *)
validate_with_schema_first_only(xml_tree, xsd_schema, xml_path) ==
    IF SchemaValidate(xsd_schema, xml_tree)
    THEN [ret |-> TRUE,
          out |-> <<Line("OK", "is valid.", xml_path, <<>>)>>]
    ELSE [ret |-> FALSE,
          out |-> <<Line("KO", "is NOT valid.", xml_path, <<>>),
                    Line("LOG", "", xml_path,
                         SubSeq(ErrorLog(xsd_schema, xml_tree), 1, 1))>>]

validate_with_schema(xml_tree, xsd_schema, xml_path) ==
    IF SchemaValidate(xsd_schema, xml_tree)
    THEN [ret |-> TRUE,
          out |-> <<Line("OK", "is valid.", xml_path, <<>>)>>]
    ELSE [ret |-> FALSE,
          out |-> <<Line("KO", "is NOT valid.", xml_path, <<>>),
                    Line("LOG", "", xml_path, ErrorLog(xsd_schema, xml_tree))>>]

(***************************************************************************)
(* validate_xml                                                            *)
(***************************************************************************)
(* What one call did: return value, printed lines, escaping exception,    *)
(* fetch_xsd calls, local schema files parsed, whether the root's         *)
(* attribute was read, and the validate_with_schema calls.                *)
Result(ret, msgs, exc, fetched, loaded, attrRead, vws) ==
    [ret |-> ret, out |-> msgs, exc |-> exc, fetched |-> fetched,
     loaded |-> loaded, attrRead |-> attrRead, vws |-> vws]

Raised(exc, fetched, loaded, attrRead) ==
    Result(FALSE, <<>>, exc, fetched, loaded, attrRead, <<>>)

WithSchema(xml_tree, schema, xml_path, fetched, loaded, attrRead) ==
    LET v == validate_with_schema(xml_tree, schema, xml_path)
    IN  Result(v.ret, v.out, "none", fetched, loaded, attrRead,
               <<[schema |-> schema, path |-> xml_path]>>)

(* RemoteBranch falling back to the local s.xsd when the fetch fails. *)
RemoteBranchLocalFallback(xml_tree, xsd_location, xml_path, resp) ==
    LET f == fetch_xsd(xsd_location, resp)
        local == Join(Dirname(xml_path), "s.xsd")
    IN  IF f.exc # "none" THEN Raised(f.exc, <<f>>, <<>>, TRUE)
        ELSE IF f.ret = None
        THEN (IF FileAt(local).kind \in Schemas
              THEN LET w == WithSchema(xml_tree, FileAt(local).kind, xml_path,
                                       <<f>>, <<local>>, TRUE)
                   IN  [w EXCEPT !.out = f.out \o @]
              ELSE Result(FALSE, f.out, "none", <<f>>, <<>>, TRUE, <<>>))
        ELSE LET w == WithSchema(xml_tree, f.ret[1], xml_path, <<f>>, <<>>, TRUE)
             IN  [w EXCEPT !.out = f.out \o @]

(* Lines 66-69: the schema location is a URL. *)
RemoteBranch(xml_tree, xsd_location, xml_path, resp) ==
    LET f == fetch_xsd(xsd_location, resp)
    IN  IF f.exc # "none" THEN Raised(f.exc, <<f>>, <<>>, TRUE)
        ELSE IF f.ret = None
        THEN Result(FALSE, f.out, "none", <<f>>, <<>>, TRUE, <<>>)
        ELSE LET w == WithSchema(xml_tree, f.ret[1], xml_path, <<f>>, <<>>, TRUE)
             IN  [w EXCEPT !.out = f.out \o @]

(* Lines 76-83: the schema is a local file. *)
LocalBranch(xml_tree, xsd_path, xml_path, attrRead) ==
    IF ~Exists(xsd_path)
    THEN Result(FALSE, <<Line("ERROR", "XSD file not found.", xsd_path, <<>>)>>,
                "none", <<>>, <<>>, attrRead, <<>>)
    ELSE LET c == CompileLocal(xsd_path)
         IN  IF c.exc # "none" THEN Raised(c.exc, <<>>, <<xsd_path>>, attrRead)
             ELSE WithSchema(xml_tree, c.schema[1], xml_path, <<>>, <<xsd_path>>, attrRead)

(* NoLocation reporting the document as invalid. *)
NoLocationAsInvalid(xml_path) ==
    Result(FALSE, <<Line("KO", "is NOT valid.", xml_path, <<>>)>>,
           "none", <<>>, <<>>, TRUE, <<>>)

(* NoLocation printing nothing. *)
NoLocationSilent(xml_path) ==
    Result(FALSE, <<>>, "none", <<>>, <<>>, TRUE, <<>>)

(* Lines 60-62: no schema location in the document. *)
NoLocation(xml_path) ==
    Result(FALSE,
           <<Line("WARNING", "No XSD location found. Skipping validation.", xml_path, <<>>)>>,
           "none", <<>>, <<>>, TRUE, <<>>)

(* Line 53: is the override used? *)
UseOverride(override) == Truthy(override)

(* Line 65: is the location a URL? *)
IsUrl(xsd_location) ==
    StartsWith(xsd_location, "http://") \/ StartsWith(xsd_location, "https://")

(* The try block with the embedded location taking precedence. *)
validate_xml_try_embedded_first(xml_path, override, resp) ==
    LET p == ParseXml(xml_path)
    IN  IF p.exc # "none" THEN Raised(p.exc, <<>>, <<>>, FALSE)
        ELSE LET xsd_location == p.tree.loc
             IN  IF ~Truthy(xsd_location)
                 THEN (IF Truthy(override)
                       THEN LocalBranch(p.tree, override[1], xml_path, TRUE)
                       ELSE NoLocation(xml_path))
                 ELSE IF IsUrl(xsd_location[1])
                 THEN RemoteBranch(p.tree, xsd_location[1], xml_path, resp)
                 ELSE LocalBranch(p.tree, Join(Dirname(xml_path), xsd_location[1]),
                                  xml_path, TRUE)

(* Lines 48-83: the body of the try block. *)
validate_xml_try(xml_path, override, resp) ==
    LET p == ParseXml(xml_path)
    IN  IF p.exc # "none" THEN Raised(p.exc, <<>>, <<>>, FALSE)
        ELSE IF UseOverride(override)
        THEN LocalBranch(p.tree, override[1], xml_path, FALSE)
        ELSE LET xsd_location == p.tree.loc
             IN  IF ~Truthy(xsd_location) THEN NoLocation(xml_path)
                 ELSE IF IsUrl(xsd_location[1])
                 THEN RemoteBranch(p.tree, xsd_location[1], xml_path, resp)
                 ELSE LocalBranch(p.tree, Join(Dirname(xml_path), xsd_location[1]),
                                  xml_path, TRUE)

(* A handler that catches only I/O errors. *)
CaughtOnlyIOError(exc) == exc = "OSError"

(* Line 85: the exceptions the handler catches (every Exception). *)
Caught(exc) == exc # "none"

(* Lines 47-87: the try block with its except clause. *)
validate_xml(xml_path, override, resp) ==
    LET b == validate_xml_try(xml_path, override, resp)
    IN  IF Caught(b.exc)
        THEN [b EXCEPT !.ret = FALSE, !.exc = "none",
                       !.out = @ \o <<Line("ERROR", "Failed to validate", xml_path, Cause(b.exc))>>]
        ELSE b

(***************************************************************************)
(* The program: main, validate_xmls_in_directory and its loop.            *)
(***************************************************************************)
Injective(s) == \A i, j \in 1..Len(s) : i # j => s[i] # s[j]

(* Directory listings: distinct entries, in any order. *)
Listings ==
    {s \in UNION {[1..n -> DirEntries] : n \in 0..MaxFiles} : Injective(s)}

(* Values of the xml_path argument. *)
Targets == {"d", "nowhere"} \cup {Join("d", e) : e \in DirEntries}

(* os.listdir: the names directly inside the directory. *)
ListDir(directory) ==
    IF directory = "d" THEN listing
    ELSE IF directory = "d/sub" THEN <<"inner.xml">>
    ELSE <<>>

(* The filter with a substring test in place of the suffix test. *)
XmlFilesContains(entries) ==
    SelectSeq(entries, LAMBDA f :
        \E i \in 1..Len(f) : i + 3 <= Len(f) /\ SubSeq(f, i, i + 3) = ".xml")

(* Line 121: the entries whose name ends in .xml, in listing order. *)
XmlFiles(entries) == SelectSeq(entries, LAMBDA f : EndsWith(f, ".xml"))

Init ==
    /\ pc \in {"main", "validate_xmls_in_directory"}
    /\ path \in Targets
    /\ xsd_override \in Overrides
    /\ listing \in Listings
    /\ (path # "d" => listing = <<>>)
    /\ xml_files = <<>>
    /\ idx = 0
    /\ out = <<>>
    /\ calls = <<>>
    /\ fetchLog = <<>>
    /\ uncaught = FALSE

(* Call abandoning the run after a file that did not validate. *)
CallStopOnFailure(xml_path, resp, next) ==
    LET r == validate_xml(xml_path, xsd_override, resp)
    IN  /\ out' = out \o r.out
        /\ calls' = Append(calls, [xml_path |-> xml_path, res |-> r])
        /\ fetchLog' = fetchLog \o r.fetched
        /\ uncaught' = (r.exc # "none")
        /\ pc' = IF r.exc # "none" THEN "crashed"
                 ELSE IF ~r.ret THEN "done" ELSE next

(* One call of validate_xml from main or from the directory loop. *)
Call(xml_path, resp, next) ==
    LET r == validate_xml(xml_path, xsd_override, resp)
    IN  /\ out' = out \o r.out
        /\ calls' = Append(calls, [xml_path |-> xml_path, res |-> r])
        /\ fetchLog' = fetchLog \o r.fetched
        /\ uncaught' = (r.exc # "none")
        /\ pc' = IF r.exc # "none" THEN "crashed" ELSE next

(* Lines 131-142. *)
Main ==
    /\ pc = "main"
    /\ IF IsDir(path)
       THEN /\ pc' = "validate_xmls_in_directory"
            /\ UNCHANGED <<out, calls, fetchLog, uncaught>>
       ELSE \E resp \in Responses : Call(path, resp, "done")
    /\ UNCHANGED <<path, xsd_override, listing, xml_files, idx>>

(* Lines 117-124: the directory check, the listing and the empty check. *)
ValidateXmlsInDirectory ==
    /\ pc = "validate_xmls_in_directory"
    /\ IF ~IsDir(path)
       THEN /\ out' = Append(out, Line("ERROR", "is not a valid directory.", path, <<>>))
            /\ pc' = "done"
            /\ UNCHANGED <<xml_files, idx>>
       ELSE /\ xml_files' = XmlFiles(ListDir(path))
            /\ idx' = 1
            /\ pc' = IF xml_files' = <<>> THEN "done" ELSE "loop"
            /\ out' = out
    /\ UNCHANGED <<path, xsd_override, listing, calls, fetchLog, uncaught>>

(* Lines 126-128: one iteration of the loop over xml_files. *)
LoopIteration ==
    /\ pc = "loop"
    /\ idx <= Len(xml_files)
    /\ \E resp \in Responses :
          Call(Join(path, xml_files[idx]), resp,
               IF idx = Len(xml_files) THEN "done" ELSE "loop")
    /\ idx' = idx + 1
    /\ UNCHANGED <<path, xsd_override, listing, xml_files>>

Next == Main \/ ValidateXmlsInDirectory \/ LoopIteration

Spec == Init /\ [][Next]_vars

(***************************************************************************)
(* Vocabulary of the properties, stated from the inputs of each call.     *)
(***************************************************************************)
CallIdx == 1..Len(calls)
TreeOf(c) == FileAt(c.xml_path)
WellFormed(c) == TreeOf(c).kind = "xml"
OverrideGiven == xsd_override # None /\ xsd_override[1] # ""
HasLocation(c) == TreeOf(c).loc # None /\ TreeOf(c).loc[1] # ""
StatusTags == {"OK", "KO", "WARNING", "ERROR"}
StatusLines(lines) == SelectSeq(lines, LAMBDA l : l.tag \in StatusTags)
HasTag(lines, tag) == \E n \in 1..Len(lines) : lines[n].tag = tag

(* The document names a URL and no override is given. *)
RemoteLoc(c) ==
    /\ WellFormed(c) /\ ~OverrideGiven /\ HasLocation(c)
    /\ \/ StartsWith(TreeOf(c).loc[1], "http://")
       \/ StartsWith(TreeOf(c).loc[1], "https://")

(* The schema is a local file: the override, or a relative location. *)
LocalLoc(c) ==
    WellFormed(c) /\ (OverrideGiven \/ (HasLocation(c) /\ ~RemoteLoc(c)))

LocalPath(c) ==
    IF OverrideGiven THEN xsd_override[1]
    ELSE Join(Dirname(c.xml_path), TreeOf(c).loc[1])

(* No attribute on the root and no override. *)
Skipped(c) == WellFormed(c) /\ TreeOf(c).loc = None /\ ~OverrideGiven

(* validate_with_schema ran on a document its schema rejects. *)
Invalid(c) ==
    /\ WellFormed(c) /\ c.res.vws # <<>>
    /\ TreeOf(c).children # <<Required(c.res.vws[1].schema)>>

(* The schema of the call could not be obtained. *)
Unavailable(c) ==
    \/ RemoteLoc(c) /\ c.res.fetched # <<>> /\ c.res.fetched[1].resp \notin Schemas
    \/ LocalLoc(c) /\ FileAt(LocalPath(c)).kind \notin Schemas

(* A directory run that is past the listing. *)
DirRun == IsDir(path) /\ pc \in {"loop", "done", "crashed"}

RECURSIVE ExpectedFrom(_, _)
ExpectedFrom(entries, i) ==
    IF i > Len(entries) THEN <<>>
    ELSE (IF Len(entries[i]) >= 4
             /\ SubSeq(entries[i], Len(entries[i]) - 3, Len(entries[i])) = ".xml"
          THEN <<path \o "/" \o entries[i]>> ELSE <<>>)
         \o ExpectedFrom(entries, i + 1)

(* Paths of the .xml entries directly inside the directory, in listing order. *)
ExpectedPaths == ExpectedFrom(ListDir(path), 1)

CalledPaths == [k \in CallIdx |-> calls[k].xml_path]

(***************************************************************************)
(* C1: when an override is provided, no call fetches a schema or reads the *)
(* embedded location, the only schema file loaded is the override path,    *)
(* and the schema applied is the one that file holds, whatever the         *)
(* document declares.                                                      *)
(***************************************************************************)
C1_OverrideWins ==
    \A k \in CallIdx :
        LET c == calls[k]
            r == c.res
        IN  OverrideGiven =>
              /\ r.fetched = <<>>
              /\ ~r.attrRead
              /\ \A j \in 1..Len(r.loaded) : r.loaded[j] = xsd_override[1]
              /\ \A j \in 1..Len(r.vws) :
                     r.vws[j].schema = FileAt(xsd_override[1]).kind
              /\ (WellFormed(c) /\ FileAt(xsd_override[1]).kind \in Schemas
                    => Len(r.vws) = 1 /\ r.loaded = <<xsd_override[1]>>)

C1_Witness ==
    \E k \in CallIdx :
        /\ OverrideGiven
        /\ TreeOf(calls[k]).loc = Some(URL1)
        /\ calls[k].res.vws = <<[schema |-> "S2", path |-> calls[k].xml_path]>>

(***************************************************************************)
(* C2: in a directory run every processed file prints exactly one status   *)
(* line, the run never stops before the last .xml entry, and at the end    *)
(* the number of status lines is the number N of .xml entries.             *)
(***************************************************************************)
C2_OneStatusLinePerFile ==
    DirRun =>
       /\ pc # "crashed"
       /\ Len(StatusLines(out)) = Len(calls)
       /\ \A k \in CallIdx : Len(StatusLines(calls[k].res.out)) = 1
       /\ (pc = "loop" => Len(calls) < Len(ExpectedPaths))
       /\ (pc = "done" => Len(calls) = Len(ExpectedPaths))

C2_Witness ==
    /\ DirRun /\ pc = "done" /\ Len(calls) = 2
    /\ ~calls[1].res.ret
    /\ calls[2].res.ret
    /\ Len(StatusLines(out)) = 2

(***************************************************************************)
(* C3: a well-formed document without the attribute, validated without an  *)
(* override, prints one warning naming the file and nothing else; no       *)
(* schema is fetched or loaded and validate_with_schema is not called.     *)
(***************************************************************************)
C3_MissingLocationWarns ==
    \A k \in CallIdx :
        LET c == calls[k]
            r == c.res
        IN  Skipped(c) =>
              /\ Len(r.out) = 1
              /\ r.out[1].tag = "WARNING"
              /\ r.out[1].subject = c.xml_path
              /\ r.fetched = <<>> /\ r.loaded = <<>> /\ r.vws = <<>>

C3_Witness ==
    \E k \in CallIdx : Skipped(calls[k]) /\ HasTag(calls[k].res.out, "WARNING")

(***************************************************************************)
(* C4 as stated: the value returned for a skipped file differs from the    *)
(* value returned for a document that violates its schema.                 *)
(***************************************************************************)
C4_SkippedResultDiffers ==
    \A i, j \in CallIdx :
        Skipped(calls[i]) /\ Invalid(calls[j])
            => calls[i].res.ret # calls[j].res.ret

(***************************************************************************)
(* C4 amended: a skipped file returns False, the same value as a document  *)
(* that violates its schema; the two differ only in what is printed, a     *)
(* single [WARNING] line against a [KO] line.                              *)
(***************************************************************************)
C4_SkippedDiffersOnlyInOutput ==
    \A i \in CallIdx :
        Skipped(calls[i]) =>
          /\ calls[i].res.ret = FALSE
          /\ Len(calls[i].res.out) = 1
          /\ calls[i].res.out[1].tag = "WARNING"
          /\ \A j \in CallIdx :
                Invalid(calls[j]) =>
                  /\ calls[j].res.ret = calls[i].res.ret
                  /\ calls[j].res.out[1].tag = "KO"
                  /\ ~HasTag(calls[j].res.out, "WARNING")

C4_Witness ==
    \E i, j \in CallIdx :
        /\ Skipped(calls[i]) /\ Invalid(calls[j])
        /\ calls[i].res.ret = FALSE /\ calls[j].res.ret = FALSE

(***************************************************************************)
(* C5: when the schema of a call cannot be obtained (failed or malformed   *)
(* fetch, missing or malformed local schema), the call returns False,      *)
(* prints an [ERROR] line and neither [OK] nor [KO], never calls           *)
(* validate_with_schema, and after a failed fetch loads no local schema    *)
(* file and fetches nothing else.                                          *)
(***************************************************************************)
C5_SchemaUnavailableFails ==
    \A k \in CallIdx :
        LET c == calls[k]
            r == c.res
        IN  Unavailable(c) =>
              /\ r.ret = FALSE
              /\ HasTag(r.out, "ERROR")
              /\ ~HasTag(r.out, "OK") /\ ~HasTag(r.out, "KO")
              /\ r.vws = <<>>
              /\ (RemoteLoc(c) => r.loaded = <<>> /\ Len(r.fetched) = 1)
              /\ (LocalLoc(c) => r.fetched = <<>>)

C5_Witness ==
    \E k \in CallIdx :
        /\ RemoteLoc(calls[k]) /\ Unavailable(calls[k])
        /\ calls[k].res.fetched[1].resp = "404"
        /\ Exists(Join(Dirname(calls[k].xml_path), "s.xsd"))

(***************************************************************************)
(* C6: on every failure of fetch_xsd (any response that is not a schema)   *)
(* fetch_xsd raises nothing, returns None and prints an error naming the   *)
(* URL and the cause.                                                      *)
(***************************************************************************)
C6_FetchNeverRaises ==
    \A k \in 1..Len(fetchLog) :
        LET f == fetchLog[k]
        IN  f.resp \notin Schemas =>
              /\ f.exc = "none"
              /\ f.ret = None
              /\ \E n \in 1..Len(f.out) :
                    /\ f.out[n].tag = "ERROR"
                    /\ f.out[n].subject = f.url
                    /\ f.out[n].detail # <<>>

(***************************************************************************)
(* C7: whenever validate_with_schema runs, the call returns true exactly   *)
(* when the schema accepts the document and then prints only the [OK]      *)
(* line; otherwise it prints the [KO] line followed by the engine's whole  *)
(* violation list in order, and that list is not empty.                    *)
(***************************************************************************)
C7_ValidatorContract ==
    \A k \in CallIdx :
        LET c == calls[k]
            r == c.res
        IN  r.vws # <<>> =>
              LET schema == r.vws[1].schema
                  accepts == TreeOf(c).children = <<Required(schema)>>
              IN  /\ r.ret = accepts
                  /\ accepts =>
                        r.out = <<Line("OK", "is valid.", c.xml_path, <<>>)>>
                  /\ ~accepts =>
                        /\ Len(r.out) = 2
                        /\ r.out[1] = Line("KO", "is NOT valid.", c.xml_path, <<>>)
                        /\ r.out[2].tag = "LOG"
                        /\ r.out[2].detail = ErrorLog(schema, TreeOf(c))
                        /\ r.out[2].detail # <<>>

C7_Witness ==
    \E k \in CallIdx :
        /\ calls[k].res.vws # <<>>
        /\ ~calls[k].res.ret
        /\ Len(calls[k].res.out) = 2
        /\ Len(calls[k].res.out[2].detail) >= 2

(***************************************************************************)
(* C8: no exception leaves validate_xml: every call returns a boolean and  *)
(* prints a message, and a document that is not well-formed XML returns    *)
(* False with an [ERROR] line naming the file.                             *)
(***************************************************************************)
C8_ErrorContainment ==
    /\ ~uncaught
    /\ pc # "crashed"
    /\ \A k \in CallIdx :
          LET c == calls[k]
              r == c.res
          IN  /\ r.exc = "none"
              /\ r.ret \in BOOLEAN
              /\ r.out # <<>>
              /\ (~WellFormed(c) =>
                    /\ r.ret = FALSE
                    /\ r.out = <<Line("ERROR", "Failed to validate", c.xml_path,
                                      r.out[1].detail)>>
                    /\ r.out[1].detail # <<>>)

C8_Witness ==
    \E k \in CallIdx :
        /\ TreeOf(calls[k]).kind = "malformed"
        /\ calls[k].res.ret = FALSE
        /\ HasTag(calls[k].res.out, "ERROR")

(***************************************************************************)
(* C9: every call that reaches schema resolution performs its own load:    *)
(* each fetch_xsd call does one HTTP GET, each URL is fetched as many      *)
(* times as there are files naming it, each file with a local schema       *)
(* parses that file itself, and two fetches of the same URL that meet the  *)
(* same response give the same result whatever was fetched before.         *)
(***************************************************************************)
C9_NoSchemaCaching ==
    /\ \A k \in 1..Len(fetchLog) : fetchLog[k].gets = 1
    /\ \A u \in {URL1, URL2} :
          Cardinality({k \in 1..Len(fetchLog) : fetchLog[k].url = u})
            = Cardinality({k \in CallIdx :
                             RemoteLoc(calls[k]) /\ TreeOf(calls[k]).loc[1] = u})
    /\ \A k \in CallIdx :
          LocalLoc(calls[k]) /\ Exists(LocalPath(calls[k]))
              => calls[k].res.loaded = <<LocalPath(calls[k])>>
    /\ \A i, j \in 1..Len(fetchLog) :
          fetchLog[i].url = fetchLog[j].url /\ fetchLog[i].resp = fetchLog[j].resp
              => fetchLog[i] = fetchLog[j]

C9_Witness ==
    /\ Len(fetchLog) = 2
    /\ fetchLog[1].url = fetchLog[2].url
    /\ fetchLog[1].ret = Some("S1")
    /\ fetchLog[2].resp = "timeout"
    /\ Len(calls) = 2

====
